---- MODULE Spec2Model ----
(***************************************************************************)
(* Model of contrib/lib/src/templates/engine.rs: the Engines dispatch      *)
(* layer over the Tera and Handlebars templating engines.                  *)
(*                                                                         *)
(* The build configuration (cargo features), the template registry and the *)
(* outcomes of the engines' own init/render are inputs; Engines::init,     *)
(* Engines::render and Engines::templates are translated from the source.  *)
(***************************************************************************)
EXTENDS Integers, Sequences, FiniteSets, TLC

\* ------------------------------------------------------------- bounds
\* Number of distinct template names the registry may hold.
MaxTemplates == 2

Names == 1..MaxTemplates
Paths == {"p1", "p2"}
Contexts == {"c1", "c2"}
Outputs == {"o1", "o2"}

\* ------------------------------------------------------------- Option<T>
None == <<>>
Some(v) == <<v>>
Unwrap(o) == o[1]
Option(S) == {None} \cup {Some(v) : v \in S}

\* ------------------------------------------------------------- engines
\* Engine::EXT of the two backends, and an extension no backend has.
TeraEXT == "tera"
HandlebarsEXT == "hbs"
OtherEXT == "txt"
Exts == {TeraEXT, HandlebarsEXT, OtherEXT}

\* cargo features gating the two backends
TeraFeature == "tera_templates"
HandlebarsFeature == "handlebars_templates"
FeatureSets == {{TeraFeature}, {HandlebarsFeature}, {TeraFeature, HandlebarsFeature}}

\* TemplateInfo { path: Option<PathBuf>, engine_ext: &'static str, .. }
TemplateInfo == [path : Option(Paths), engine_ext : Exts]

\* HashMap<String, TemplateInfo>
Registries == UNION {[D -> TemplateInfo] : D \in SUBSET Names}

VARIABLES
  features,    \* the enabled cargo features of this build
  templates,   \* the template registry handed to Engines::init
  pc,          \* "start" before Engines::init, then "ready" or "failed"
  engines,     \* Option<Engines>: what Engines::init returned
  initLog,     \* the E::init calls Engines::init made, in order
  customized,  \* whether the customization callback has run
  ret          \* record of the last operation: arguments, delegated calls, result

vars == <<features, templates, pc, engines, initLog, customized, ret>>

\* ENABLED_EXTENSIONS
ENABLED_EXTENSIONS(fs) ==
  (IF TeraFeature \in fs THEN <<TeraEXT>> ELSE <<>>)
    \o (IF HandlebarsFeature \in fs THEN <<HandlebarsEXT>> ELSE <<>>)

SeqToSet(s) == {s[i] : i \in 1..Len(s)}

\* ------------------------------------------------------------- Engines::init
\* named_templates handed the (name, path) of every entry of the other engines too
named_templates_NoExtFilter(EXT, tmpls) ==
  LET withPath == {k \in DOMAIN tmpls : tmpls[k].path # None}
  IN  {<<k, Unwrap(tmpls[k].path)>> : k \in withPath}

\* named_templates handing an entry without a path under a default path
named_templates_DefaultPath(EXT, tmpls) ==
  LET matching == {k \in DOMAIN tmpls : tmpls[k].engine_ext = EXT}
  IN  {<<k, IF tmpls[k].path = None THEN "p1" ELSE Unwrap(tmpls[k].path)>> : k \in matching}

\* inner::<E>, the iterator: the (name, path) pairs handed to E::init
named_templates(EXT, tmpls) ==
  LET matching == {k \in DOMAIN tmpls : tmpls[k].engine_ext = EXT}
      withPath == {k \in matching : tmpls[k].path # None}
  IN  {<<k, Unwrap(tmpls[k].path)>> : k \in withPath}

\* E::init: fails, or yields an engine holding the named templates it was given
EngineInit(EXT, named, ok) ==
  IF ok THEN Some([ext |-> EXT, names |-> {t[1] : t \in named}]) ELSE None

\* inner::<E>(templates): the E::init call it makes and what that call returns
inner(EXT, tmpls, ok) ==
  LET named == named_templates(EXT, tmpls)
  IN  [ext |-> EXT, templates |-> named, result |-> EngineInit(EXT, named, ok)]

\* The Engines value built from the engines the inits returned
EnginesOf(fs, tera, hb) ==
  [e \in SeqToSet(ENABLED_EXTENSIONS(fs)) |-> IF e = TeraEXT THEN tera ELSE hb]

\* Engines::init that initializes every enabled engine before looking at any result
EnginesInit_NoShortCircuit(fs, tmpls, ok) ==
  LET tera == inner(TeraEXT, tmpls, ok[TeraEXT])
      hb == inner(HandlebarsEXT, tmpls, ok[HandlebarsEXT])
      calls == (IF TeraFeature \in fs THEN <<tera>> ELSE <<>>)
                 \o (IF HandlebarsFeature \in fs THEN <<hb>> ELSE <<>>)
  IN  IF \E i \in DOMAIN calls : calls[i].result = None
        THEN [calls |-> calls, result |-> None]
        ELSE [calls |-> calls,
              result |-> Some(EnginesOf(fs, Unwrap(tera.result), Unwrap(hb.result)))]

\* Engines::init that puts an empty engine in the place of a Handlebars that failed
EnginesInit_DefaultOnFailure(fs, tmpls, ok) ==
  LET tera == inner(TeraEXT, tmpls, ok[TeraEXT])
      hb == inner(HandlebarsEXT, tmpls, ok[HandlebarsEXT])
      hbOr == IF hb.result = None THEN [ext |-> HandlebarsEXT, names |-> {}]
                                  ELSE Unwrap(hb.result)
      teraCalls == IF TeraFeature \in fs THEN <<tera>> ELSE <<>>
  IN  IF TeraFeature \in fs /\ tera.result = None
        THEN [calls |-> teraCalls, result |-> None]
      ELSE IF HandlebarsFeature \in fs
        THEN [calls |-> teraCalls \o <<hb>>,
              result |-> Some(EnginesOf(fs, Unwrap(tera.result), hbOr))]
      ELSE [calls |-> teraCalls, result |-> Some(EnginesOf(fs, Unwrap(tera.result), hbOr))]

\* Engines::init that gives up on a registry entry no enabled engine owns
EnginesInit_RejectsUnowned(fs, tmpls, ok) ==
  LET tera == inner(TeraEXT, tmpls, ok[TeraEXT])
      hb == inner(HandlebarsEXT, tmpls, ok[HandlebarsEXT])
      teraCalls == IF TeraFeature \in fs THEN <<tera>> ELSE <<>>
  IN  IF \E k \in DOMAIN tmpls : tmpls[k].engine_ext \notin SeqToSet(ENABLED_EXTENSIONS(fs))
        THEN [calls |-> <<>>, result |-> None]
      ELSE IF TeraFeature \in fs /\ tera.result = None
        THEN [calls |-> teraCalls, result |-> None]
      ELSE IF HandlebarsFeature \in fs /\ hb.result = None
        THEN [calls |-> teraCalls \o <<hb>>, result |-> None]
      ELSE [calls |-> teraCalls \o (IF HandlebarsFeature \in fs THEN <<hb>> ELSE <<>>),
            result |-> Some(EnginesOf(fs, Unwrap(tera.result), Unwrap(hb.result)))]

\* Engines::init. ok[EXT] is the outcome of E::init should it be called.
\* Yields the E::init calls made, in order, and the returned Option<Engines>:
\* the struct fields are evaluated in order, each `None => return None` at once.
EnginesInit(fs, tmpls, ok) ==
  LET tera == inner(TeraEXT, tmpls, ok[TeraEXT])
      hb == inner(HandlebarsEXT, tmpls, ok[HandlebarsEXT])
      teraCalls == IF TeraFeature \in fs THEN <<tera>> ELSE <<>>
  IN  IF TeraFeature \in fs /\ tera.result = None
        THEN [calls |-> teraCalls, result |-> None]
      ELSE IF HandlebarsFeature \in fs /\ hb.result = None
        THEN [calls |-> teraCalls \o <<hb>>, result |-> None]
      ELSE [calls |-> teraCalls \o (IF HandlebarsFeature \in fs THEN <<hb>> ELSE <<>>),
            result |-> Some(EnginesOf(fs, Unwrap(tera.result), Unwrap(hb.result)))]

\* ------------------------------------------------------------- Engines::render
\* Engine::render(&self.<field>, name, context) returning out
RenderCall(self, EXT, name, context, out) ==
  [engine |-> EXT, self |-> self[EXT], name |-> name, context |-> context, result |-> out]

FirstEnabled(fs) == ENABLED_EXTENSIONS(fs)[1]

\* Engines::render without the extension test before the first enabled engine
EnginesRender_NoExtCheck(fs, self, name, info, context, out) ==
  [calls |-> <<RenderCall(self, FirstEnabled(fs), name, context, out)>>, result |-> out]

\* Engines::render whose engine branches lack the `return`
EnginesRender_NoReturn(fs, self, name, info, context, out) ==
  IF TeraFeature \in fs /\ info.engine_ext = TeraEXT
    THEN [calls |-> <<RenderCall(self, TeraEXT, name, context, out)>>, result |-> None]
  ELSE IF HandlebarsFeature \in fs /\ info.engine_ext = HandlebarsEXT
    THEN [calls |-> <<RenderCall(self, HandlebarsEXT, name, context, out)>>, result |-> None]
  ELSE [calls |-> <<>>, result |-> None]

\* Engines::render falling back to the first enabled engine for an unknown extension
EnginesRender_Fallback(fs, self, name, info, context, out) ==
  IF TeraFeature \in fs /\ info.engine_ext = TeraEXT
    THEN [calls |-> <<RenderCall(self, TeraEXT, name, context, out)>>, result |-> out]
  ELSE IF HandlebarsFeature \in fs /\ info.engine_ext = HandlebarsEXT
    THEN [calls |-> <<RenderCall(self, HandlebarsEXT, name, context, out)>>, result |-> out]
  ELSE [calls |-> <<RenderCall(self, FirstEnabled(fs), name, context, out)>>, result |-> out]

\* Engines::render. out is what the engine's own render returns should it be called.
\* Yields the engine render calls made and the returned Option<String>.
EnginesRender(fs, self, name, info, context, out) ==
  IF TeraFeature \in fs /\ info.engine_ext = TeraEXT
    THEN [calls |-> <<RenderCall(self, TeraEXT, name, context, out)>>, result |-> out]
  ELSE IF HandlebarsFeature \in fs /\ info.engine_ext = HandlebarsEXT
    THEN [calls |-> <<RenderCall(self, HandlebarsEXT, name, context, out)>>, result |-> out]
  ELSE [calls |-> <<>>, result |-> None]

\* ------------------------------------------------------------- Engines::templates
\* The enumerations of a set, as sequences without repetition.
Perms(S) == {s \in [1..Cardinality(S) -> S] : \A i, j \in DOMAIN s : s[i] = s[j] => i = j}

\* tera.get_template_names() / handlebars.get_templates().keys(): the names the
\* engine holds, in the order its map iterates (order: an enumeration of all names)
get_template_names(engine, order) ==
  LET Held(n) == n \in engine.names IN SelectSeq(order, Held)

\* .map(|name| (name, E::EXT))
Tag(s, EXT) == [i \in DOMAIN s |-> <<s[i], EXT>>]

\* Engines::templates chaining the Handlebars names before the Tera names
EnginesTemplates_HandlebarsFirst(fs, self, teraOrder, hbOrder) ==
  IF TeraFeature \in fs /\ HandlebarsFeature \in fs
    THEN Tag(get_template_names(self[HandlebarsEXT], hbOrder), HandlebarsEXT)
           \o Tag(get_template_names(self[TeraEXT], teraOrder), TeraEXT)
  ELSE IF TeraFeature \in fs
    THEN Tag(get_template_names(self[TeraEXT], teraOrder), TeraEXT)
  ELSE Tag(get_template_names(self[HandlebarsEXT], hbOrder), HandlebarsEXT)

\* Engines::templates: one cfg block per feature combination
EnginesTemplates(fs, self, teraOrder, hbOrder) ==
  IF TeraFeature \in fs /\ HandlebarsFeature \in fs
    THEN Tag(get_template_names(self[TeraEXT], teraOrder), TeraEXT)
           \o Tag(get_template_names(self[HandlebarsEXT], hbOrder), HandlebarsEXT)
  ELSE IF TeraFeature \in fs
    THEN Tag(get_template_names(self[TeraEXT], teraOrder), TeraEXT)
  ELSE Tag(get_template_names(self[HandlebarsEXT], hbOrder), HandlebarsEXT)

\* ------------------------------------------------------------- the state machine
Init ==
  /\ features \in FeatureSets
  /\ templates \in Registries
  /\ pc = "start"
  /\ engines = None
  /\ initLog = <<>>
  /\ customized = FALSE
  /\ ret = [op |-> "none"]

\* No Engines call is in progress: the last one, if any, has returned to its caller.
Idle == ret.op \in {"none", "init"}

\* Startup: Engines::init(&templates)
DoInit ==
  /\ pc = "start"
  /\ \E ok \in [{TeraEXT, HandlebarsEXT} -> BOOLEAN] :
       LET r == EnginesInit(features, templates, ok)
       IN  /\ engines' = r.result
           /\ initLog' = r.calls
           /\ pc' = IF r.result = None THEN "failed" ELSE "ready"
           /\ ret' = [op |-> "init", result |-> r.result]
  /\ UNCHANGED <<features, templates, customized>>

\* The customization callback (Template::custom) registers one more template
\* on one of the public engine fields.
Customize ==
  /\ pc = "ready"
  /\ Idle
  /\ ~customized
  /\ \E e \in DOMAIN Unwrap(engines), n \in Names :
       /\ n \notin Unwrap(engines)[e].names
       /\ engines' = Some([Unwrap(engines) EXCEPT ![e].names = @ \cup {n}])
  /\ customized' = TRUE
  /\ UNCHANGED <<features, templates, pc, initLog, ret>>

\* Request time: engines.render(name, info, context)
DoRender ==
  /\ pc = "ready"
  /\ Idle
  /\ \E name \in Names, info \in TemplateInfo, context \in Contexts, out \in Option(Outputs) :
       LET r == EnginesRender(features, Unwrap(engines), name, info, context, out)
       IN  ret' = [op |-> "render", name |-> name, info |-> info, context |-> context,
                   calls |-> r.calls, result |-> r.result]
  /\ UNCHANGED <<features, templates, pc, engines, initLog, customized>>

\* engines.templates()
DoTemplates ==
  /\ pc = "ready"
  /\ Idle
  /\ \E teraOrder \in Perms(Names), hbOrder \in Perms(Names) :
       ret' = [op |-> "templates",
               result |-> EnginesTemplates(features, Unwrap(engines), teraOrder, hbOrder)]
  /\ UNCHANGED <<features, templates, pc, engines, initLog, customized>>

\* The caller of render / templates takes the result; the next call may start.
Return ==
  /\ ret.op \in {"render", "templates"}
  /\ ret' = [op |-> "none"]
  /\ UNCHANGED <<features, templates, pc, engines, initLog, customized>>

Next == DoInit \/ Customize \/ DoRender \/ DoTemplates \/ Return

Spec == Init /\ [][Next]_vars

\* ------------------------------------------------------------- properties
Enabled == SeqToSet(ENABLED_EXTENSIONS(features))

BothEnabled == features = {TeraFeature, HandlebarsFeature}

\* the names E::init call c was handed
Handed(c) == {t[1] : t \in c.templates}

\* the E::init calls that were handed name n
Receivers(n) == {i \in DOMAIN initLog : n \in Handed(initLog[i])}

\* the registry entries an engine with extension EXT is to load
OwnedBy(EXT) ==
  {<<k, p>> \in Names \X Paths :
     k \in DOMAIN templates /\ templates[k] = [path |-> Some(p), engine_ext |-> EXT]}

RenderOfEntry ==
  /\ ret.op = "render"
  /\ ret.name \in DOMAIN templates
  /\ ret.info = templates[ret.name]

\* C1: after a successful Engines::init, a render of a registry entry (name, info)
\* that has a path and an enabled engine's extension is delegated to the engine
\* that was handed that name during init, and to no other engine.
C1_RenderGoesToOwner ==
  (RenderOfEntry /\ ret.info.path # None /\ ret.info.engine_ext \in Enabled)
    => /\ Len(ret.calls) = 1
       /\ \E i \in Receivers(ret.name) :
            /\ Receivers(ret.name) = {i}
            /\ ret.calls[1].engine = initLog[i].ext
            /\ ret.calls[1].self = Unwrap(engines)[initLog[i].ext]

\* a Handlebars-owned entry is rendered in a build that has both engines
C1_Witness ==
  /\ RenderOfEntry /\ ret.info.path # None /\ BothEnabled
  /\ ret.info.engine_ext = HandlebarsEXT
  /\ Len(ret.calls) = 1

\* C2: every E::init call made by Engines::init is handed exactly the (name, path)
\* pairs of the registry entries with E's extension and a path, and no entry is
\* handed to two engines.
C2_HandedExactlyOwned ==
  /\ \A i \in DOMAIN initLog :
       /\ initLog[i].ext \in Enabled
       /\ initLog[i].templates = OwnedBy(initLog[i].ext)
  /\ \A i, j \in DOMAIN initLog :
       i # j => Handed(initLog[i]) \cap Handed(initLog[j]) = {}

\* both engines were initialized, each with an entry of its own at its own path
C2_Witness ==
  /\ Len(initLog) = 2
  /\ initLog[1].templates # {} /\ initLog[2].templates # {}
  /\ initLog[1].templates \cap initLog[2].templates = {}
  /\ \A t \in initLog[1].templates : \A u \in initLog[2].templates : t[2] # u[2]

\* C3: a render whose info carries an enabled engine's extension calls that
\* engine's render once, with the caller's name and context, and returns what
\* the engine returned.
C3_RenderPassesThrough ==
  (ret.op = "render" /\ ret.info.engine_ext \in Enabled)
    => /\ Len(ret.calls) = 1
       /\ ret.calls[1].engine = ret.info.engine_ext
       /\ ret.calls[1].self = Unwrap(engines)[ret.info.engine_ext]
       /\ ret.calls[1].name = ret.name
       /\ ret.calls[1].context = ret.context
       /\ ret.result = ret.calls[1].result

\* the engine produced an output and the caller got it
C3_Witness ==
  /\ ret.op = "render" /\ ret.info.engine_ext = HandlebarsEXT
  /\ Len(ret.calls) = 1
  /\ ret.calls[1].result = Some("o2")
  /\ ret.context = "c2"

\* the (name, EXT) pairs of the templates the enabled engines hold
HeldPairs == {<<n, e>> \in Names \X Enabled : n \in Unwrap(engines)[e].names}

\* C4: Engines::templates yields each (name, EXT) of a template held by an
\* enabled engine exactly once and nothing else; no Handlebars pair comes before
\* a Tera pair; a name held by both engines is yielded once with each EXT.
C4_TemplatesEnumeratesHeld ==
  ret.op = "templates"
    => /\ SeqToSet(ret.result) = HeldPairs
       /\ Len(ret.result) = Cardinality(HeldPairs)
       /\ \A i, j \in DOMAIN ret.result :
            (ret.result[i][2] = HandlebarsEXT /\ ret.result[j][2] = TeraEXT) => j < i

\* both engines hold the same name, and Tera holds another one too
C4_Witness ==
  /\ ret.op = "templates" /\ BothEnabled
  /\ \E n \in Names : <<n, TeraEXT>> \in HeldPairs /\ <<n, HandlebarsEXT>> \in HeldPairs
  /\ Len(ret.result) >= 3

\* C5: Engines::init returns None exactly when an E::init it called returned
\* None; otherwise it returns Some(Engines) with one engine per enabled feature,
\* each the value its E::init returned.
C5_InitAllOrNothing ==
  ret.op = "init"
    => /\ ret.result = None <=> \E i \in DOMAIN initLog : initLog[i].result = None
       /\ ret.result # None =>
            /\ DOMAIN Unwrap(ret.result) = Enabled
            /\ \A e \in Enabled : \E i \in DOMAIN initLog :
                 /\ initLog[i].ext = e
                 /\ initLog[i].result = Some(Unwrap(ret.result)[e])

\* Tera's init succeeded, Handlebars' failed, and Engines::init returned None
C5_Witness ==
  /\ ret.op = "init" /\ ret.result = None
  /\ Len(initLog) = 2
  /\ initLog[1].result # None /\ initLog[2].result = None

\* C6: a render whose info carries no enabled engine's extension returns None
\* and calls no engine's render.
C6_UnknownExtRendersNone ==
  (ret.op = "render" /\ ret.info.engine_ext \notin Enabled)
    => ret.calls = <<>> /\ ret.result = None

\* the extension is that of the engine compiled out, and the engine compiled in
\* holds a template of that name
C6_Witness ==
  /\ ret.op = "render" /\ ret.info.engine_ext = HandlebarsEXT
  /\ features = {TeraFeature}
  /\ ret.name \in Unwrap(engines)[TeraEXT].names

PathlessOwned ==
  {k \in DOMAIN templates : templates[k].path = None /\ templates[k].engine_ext \in Enabled}

\* C7: an entry without a path is handed to no engine, and when every E::init
\* called succeeds Engines::init returns Some whether or not such entries exist.
C7_PathlessSkipped ==
  /\ \A i \in DOMAIN initLog : \A n \in Handed(initLog[i]) :
       n \in DOMAIN templates /\ templates[n].path # None
  /\ (pc # "start" /\ PathlessOwned # {} /\ \A i \in DOMAIN initLog : initLog[i].result # None)
       => engines # None

\* init succeeded on a registry with a path-less entry of an enabled engine
C7_Witness ==
  /\ ret.op = "init" /\ ret.result # None
  /\ PathlessOwned # {}
  /\ \E i \in DOMAIN initLog : initLog[i].templates # {}

\* C8: with both engines enabled Tera is initialized first, Handlebars second,
\* and a Tera failure ends Engines::init with None before Handlebars is called.
C8_TeraFirstThenStop ==
  (pc # "start" /\ BothEnabled)
    => /\ Len(initLog) \in {1, 2}
       /\ initLog[1].ext = TeraEXT
       /\ Len(initLog) = 2 => initLog[2].ext = HandlebarsEXT
       /\ initLog[1].result = None => (Len(initLog) = 1 /\ engines = None)
       /\ initLog[1].result # None => Len(initLog) = 2

\* Tera failed while the registry holds Handlebars templates
C8_Witness ==
  /\ pc = "failed" /\ BothEnabled
  /\ initLog[1].result = None
  /\ OwnedBy(HandlebarsEXT) # {}

Unowned == {k \in DOMAIN templates : templates[k].engine_ext \notin Enabled}

\* C9: an entry whose extension no enabled engine has is handed to no engine,
\* and when no E::init called fails, every enabled engine's init has been called
\* (possibly with no templates) and Engines::init returns Some.
C9_UnownedIgnored ==
  /\ \A i \in DOMAIN initLog : Handed(initLog[i]) \cap Unowned = {}
  /\ (pc # "start" /\ \A i \in DOMAIN initLog : initLog[i].result # None)
       => /\ engines # None
          /\ [i \in DOMAIN initLog |-> initLog[i].ext] = ENABLED_EXTENSIONS(features)

\* init succeeded on a registry of unowned entries only: every engine got nothing
C9_Witness ==
  /\ ret.op = "init" /\ ret.result # None
  /\ Unowned # {} /\ Unowned = DOMAIN templates
  /\ BothEnabled
  /\ \A i \in DOMAIN initLog : initLog[i].templates = {}


====
